---- MODULE Spec2Model ----
(***************************************************************************)
(* A model of the counting semaphore SemVar (src/src/sem.rs) and of the    *)
(* Mutex built on it (src/src/mutex.rs).                                   *)
(*                                                                         *)
(* Every atomic operation of access() and of SemGuard::drop is one step:   *)
(* the load, the compare_exchange, the check made by wait(), the load that *)
(* follows a return from wait(), the fetch_sub and the wake_one.  The      *)
(* branches on the thread-local `value` touch no shared memory and are     *)
(* folded into the step that assigns `value` (see Branch).                 *)
(***************************************************************************)
EXTENDS Integers, FiniteSets, Sequences

\* ----------------------------------------------------------------- bounds
NThreads == 3
MaxCapacity == 2
MaxIters == 2
\* Width of the counter word of the model; the AtomicU32 arithmetic wraps
\* modulo 2^CountBits.
CountBits == 2
\* Most writes to the guarded value in a run that records them (log).
MaxWrites == 4

Threads == 1..NThreads
Modulus == 2 ^ CountBits

VARIABLES
    capacity,   \* SemVar.capacity
    count,      \* SemVar.count, the AtomicU32
    cell,       \* the guarded value of the Mutex (the UnsafeCell's content)
    pc,         \* pc[t]: where thread t is inside access() / drop()
    value,      \* value[t]: the local `value` of access()
    held,       \* held[t]: guards returned to t by access() and not yet dropped
    stage,      \* stage[t]: where t is in its client statement
    tmp,        \* tmp[t]: the value read by `*m.lock() += 1` before it is written back
    todo,       \* todo[t]: iterations of the client loop t has still to run
    plan,       \* <<T, I>>: threads spawned and iterations each, of the mutex tests
    COUNT,      \* the tests' static COUNT of returned access() calls
    epoch,      \* history: parity of the number of successful compare_exchanges
    wk,         \* history: wk[t], what happened since t's drop freed a slot, or
                \* since wake_one woke t (see Watch)
    since,      \* history: since[t], the threads that wake_one had woken, and that had
                \* not read count again yet, when t called access()
    log,        \* the values written to the guarded value so far, oldest first
    view,       \* view[t]: how many of those writes happen before t's next step
    sync        \* how many of them the last write to count has released

vars == <<capacity, count, cell, pc, value, held, stage, tmp, todo, plan, COUNT,
          epoch, wk, since, log, view, sync>>

\* ------------------------------------------------------------ u32 arithmetic
\* The arithmetic on the counter word wraps around (fetch_sub always does; the
\* `value + 1` of access() does in a release build).
WrappingAdd(a, b) == (a + b) % Modulus
WrappingSub(a, b) == (a + Modulus - b) % Modulus

\* ------------------------------------------------------------- SemVar::new
\* SemVar::new(capacity, value): count starts at 0.
SemVarNew(c) ==
    /\ capacity = c
    /\ count = 0

\* A Mutex built on a SemVar of capacity two.
MutexCapacityTwo == 1 + 1

\* Mutex::new(value): a SemVar of capacity 1.
MutexCapacity == 1

ThreadsIdle ==
    /\ pc = [t \in Threads |-> "idle"]
    /\ value = [t \in Threads |-> 0]
    /\ held = [t \in Threads |-> 0]
    /\ stage = [t \in Threads |-> "lock"]
    /\ tmp = [t \in Threads |-> 0]
    /\ COUNT = 0
    /\ epoch = 0
    /\ wk = [t \in Threads |-> "no"]
    /\ since = [t \in Threads |-> {}]
    /\ log = <<>>
    /\ view = [t \in Threads |-> 0]
    /\ sync = 0

\* ------------------------------------------------------------ SemVar::access
\* Branch with the first test off by one (value <= capacity).
BranchInclusive(v) ==
    IF v <= capacity THEN "cas" ELSE "spin"

\* Where access() goes with a freshly assigned `value`: the compare_exchange
\* when value < capacity, the wait when value == capacity, and otherwise
\* round the loop for ever with `value` unchanged.
Branch(v) ==
    IF v < capacity THEN "cas"
    ELSE IF v = capacity THEN "wait"
    ELSE "spin"

\* let mut value = self.count.load(SeqCst)
Load(t) ==
    /\ pc[t] = "idle"
    /\ value' = [value EXCEPT ![t] = count]
    /\ pc' = [pc EXCEPT ![t] = Branch(count)]
    /\ UNCHANGED <<capacity, count, held, epoch>>

\* CasOk with a plain store in place of the compare_exchange.
CasOkStore(t) ==
    /\ pc[t] = "cas"
    /\ count' = WrappingAdd(value[t], 1)
    /\ pc' = [pc EXCEPT ![t] = "idle"]
    /\ held' = [held EXCEPT ![t] = @ + 1]
    /\ value' = [value EXCEPT ![t] = 0]
    /\ epoch' = 1 - epoch
    /\ UNCHANGED capacity

\* compare_exchange(value, value + 1) returns Ok: access() returns the guard.
CasOk(t) ==
    /\ pc[t] = "cas"
    /\ count = value[t]
    /\ count' = WrappingAdd(value[t], 1)
    /\ pc' = [pc EXCEPT ![t] = "idle"]
    /\ held' = [held EXCEPT ![t] = @ + 1]
    /\ value' = [value EXCEPT ![t] = 0]
    /\ epoch' = 1 - epoch
    /\ UNCHANGED capacity

\* CasFail with the Err arm returning the guard as the Ok arm does.
CasFailReturns(t) ==
    /\ pc[t] = "cas"
    /\ count # value[t]
    /\ pc' = [pc EXCEPT ![t] = "idle"]
    /\ held' = [held EXCEPT ![t] = @ + 1]
    /\ value' = [value EXCEPT ![t] = 0]
    /\ UNCHANGED <<capacity, count, epoch>>

\* compare_exchange returns Err(e): value = e.
CasFail(t) ==
    /\ pc[t] = "cas"
    /\ count # value[t]
    /\ value' = [value EXCEPT ![t] = count]
    /\ pc' = [pc EXCEPT ![t] = Branch(count)]
    /\ UNCHANGED <<capacity, count, held, epoch>>

\* Wait that blocks without comparing count with the expected value.
WaitUnchecked(t) ==
    /\ pc[t] = "wait"
    /\ pc' = [pc EXCEPT ![t] = "blocked"]
    /\ UNCHANGED <<capacity, count, value, held, epoch>>

\* wait(&self.count, value): blocks only if count still equals value.
Wait(t) ==
    /\ pc[t] = "wait"
    /\ pc' = [pc EXCEPT ![t] = IF count = value[t] THEN "blocked" ELSE "reload"]
    /\ UNCHANGED <<capacity, count, value, held, epoch>>

\* wait() returns without a wake_one (the futex contract allows it).
SpuriousWake(t) ==
    /\ pc[t] = "blocked"
    /\ pc' = [pc EXCEPT ![t] = "reload"]
    /\ UNCHANGED <<capacity, count, value, held, epoch>>

\* Reload that keeps the value loaded before the wait.
ReloadStale(t) ==
    /\ pc[t] = "reload"
    /\ pc' = [pc EXCEPT ![t] = Branch(value[t])]
    /\ UNCHANGED <<capacity, count, value, held, epoch>>

\* value = self.count.load(SeqCst) after wait() returned.
Reload(t) ==
    /\ pc[t] = "reload"
    /\ value' = [value EXCEPT ![t] = count]
    /\ pc' = [pc EXCEPT ![t] = Branch(count)]
    /\ UNCHANGED <<capacity, count, held, epoch>>

\* ------------------------------------------------------------ SemGuard::drop
\* FetchSub that forgets the decrement: the drop only wakes.
FetchSubNothing(t) ==
    /\ pc[t] = "idle"
    /\ held[t] > 0
    /\ held' = [held EXCEPT ![t] = @ - 1]
    /\ pc' = [pc EXCEPT ![t] = "wake"]
    /\ UNCHANGED <<capacity, count, value, epoch>>

\* let res = self.inner.count.fetch_sub(1, SeqCst)
FetchSub(t) ==
    /\ pc[t] = "idle"
    /\ held[t] > 0
    /\ count' = WrappingSub(count, 1)
    /\ held' = [held EXCEPT ![t] = @ - 1]
    /\ pc' = [pc EXCEPT ![t] = "wake"]
    /\ UNCHANGED <<capacity, value, epoch>>

\* WakeOne that wakes every blocked thread: a wake_all in place of wake_one.
WakeAll(t) ==
    /\ pc[t] = "wake"
    /\ pc' = [w \in Threads |->
                IF w = t THEN "idle"
                ELSE IF pc[w] = "blocked" THEN "reload"
                ELSE pc[w]]
    /\ UNCHANGED <<capacity, count, value, held, epoch>>

\* WakeOne that wakes nobody: a drop without its wake_one.
WakeOneSkipped(t) ==
    /\ pc[t] = "wake"
    /\ pc' = [pc EXCEPT ![t] = "idle"]
    /\ UNCHANGED <<capacity, count, value, held, epoch>>

\* wake_one(&self.inner.count): wakes one thread blocked on count, if any.
WakeOne(t) ==
    /\ pc[t] = "wake"
    /\ \/ \E w \in Threads :
            /\ pc[w] = "blocked"
            /\ pc' = [pc EXCEPT ![t] = "idle", ![w] = "reload"]
       \/ /\ \A w \in Threads : pc[w] # "blocked"
          /\ pc' = [pc EXCEPT ![t] = "idle"]
    /\ UNCHANGED <<capacity, count, value, held, epoch>>

\* The steps a thread takes inside access() and drop() once it is in them.
Inside(t) ==
    \/ CasOk(t)
    \/ CasFail(t)
    \/ Wait(t)
    \/ Reload(t)
    \/ WakeOne(t)

\* ----------------------------------------------------------------- readings
\* t is inside access(): called, not returned.
Pending(t) == pc[t] \in {"cas", "wait", "blocked", "reload", "spin"}

RECURSIVE SumHeld(_)
SumHeld(S) ==
    IF S = {} THEN 0
    ELSE LET t == CHOOSE x \in S : TRUE IN held[t] + SumHeld(S \ {t})

\* The guards that access() has returned and that have not been dropped.
LiveGuards == SumHeld(Threads)

\* ------------------------------------------------- any client of the SemVar
Init ==
    /\ \E c \in 0..MaxCapacity : SemVarNew(c)
    /\ ThreadsIdle
    /\ cell = 0
    /\ todo = [t \in Threads |-> 0]
    /\ plan = <<0, 0>>

Quiet == UNCHANGED <<stage, tmp, todo, plan, COUNT, cell, wk, since,
                   log, view, sync>>

\* A thread calls access(), whatever guards it already holds.
Access(t) == Load(t) /\ Quiet

\* A thread drops one of the guards it holds.
Drop(t) == FetchSub(t) /\ Quiet

Step(t) == Inside(t) /\ Quiet

Spurious(t) == SpuriousWake(t) /\ Quiet

Next ==
    \E t \in Threads :
        \/ Access(t)
        \/ Drop(t)
        \/ Step(t)
        \/ Spurious(t)

Spec == Init /\ [][Next]_vars

\* ------------------------------------- threads that cycle: access(), drop
\* A thread that holds no guard calls access().
Acquire(t) == held[t] = 0 /\ Load(t) /\ Quiet

\* A thread that holds its guard drops it.
Release(t) == FetchSub(t) /\ Quiet

CycleNext ==
    \E t \in Threads :
        \/ Acquire(t)
        \/ Release(t)
        \/ Step(t)
        \/ Spurious(t)

\* The scheduler runs every thread that can run: a thread inside access() or
\* drop() takes its next step, and a holder drops its guard.  Nothing obliges a
\* thread to call access(), nor wait() to return by itself.
Fairness ==
    \A t \in Threads : WF_vars(Step(t)) /\ WF_vars(Release(t))

FairSpec == Init /\ [][CycleNext]_vars /\ Fairness

\* --------------------------- test everyone_gets_their_chance (sem.rs 156-185)
\* NThreads threads are spawned; each calls access() once, adds one to COUNT
\* and drops its guard at the end of its closure.
WorkInit ==
    /\ \E c \in 1..MaxCapacity : SemVarNew(c)
    /\ ThreadsIdle
    /\ cell = 0
    /\ todo = [t \in Threads |-> 1]
    /\ plan = <<NThreads, 1>>

\* let _guard = sem.access()
WorkAccess(t) ==
    /\ stage[t] = "lock"
    /\ todo[t] > 0
    /\ Load(t)
    /\ stage' = [stage EXCEPT ![t] = "tally"]
    /\ UNCHANGED <<tmp, todo, plan, COUNT, cell, wk, since,
                   log, view, sync>>

\* COUNT.fetch_add(1, SeqCst), once access() has returned
Tally(t) ==
    /\ stage[t] = "tally"
    /\ pc[t] = "idle"
    /\ held[t] > 0
    /\ COUNT' = COUNT + 1
    /\ stage' = [stage EXCEPT ![t] = "drop"]
    /\ UNCHANGED <<capacity, count, pc, value, held, epoch, tmp, todo, plan, cell,
                   wk, since, log, view, sync>>

\* _guard goes out of scope
WorkDrop(t) ==
    /\ stage[t] = "drop"
    /\ FetchSub(t)
    /\ stage' = [stage EXCEPT ![t] = "lock"]
    /\ todo' = [todo EXCEPT ![t] = @ - 1]
    /\ UNCHANGED <<tmp, plan, COUNT, cell, wk, since,
                   log, view, sync>>

WorkNext ==
    \E t \in Threads :
        \/ WorkAccess(t)
        \/ Tally(t)
        \/ WorkDrop(t)
        \/ Step(t)
        \/ Spurious(t)

\* Every spawned thread runs its closure to the end when it can.
WorkFairness ==
    \A t \in Threads :
        /\ WF_vars(WorkAccess(t))
        /\ WF_vars(Tally(t))
        /\ WF_vars(WorkDrop(t))
        /\ WF_vars(Step(t))

WorkSpec == WorkInit /\ [][WorkNext]_vars /\ WorkFairness

\* --------------------------------- T threads that each cycle I times
\* As mutex_test_single_thread (mutex.rs 49-59) when T = 1: access(), drop,
\* again; on a semaphore of any capacity >= 1.
LoopInit ==
    /\ \E c \in 1..MaxCapacity : SemVarNew(c)
    /\ ThreadsIdle
    /\ cell = 0
    /\ \E T \in 1..NThreads : \E I \in 1..MaxIters :
          /\ plan = <<T, I>>
          /\ todo = [t \in Threads |-> IF t <= T THEN I ELSE 0]

LoopSpec == LoopInit /\ [][WorkNext]_vars

\* ------------------------ tests mutex_test_* (mutex.rs 49-77): *m.lock() += 1
\* Mutex::new(0) shared by T threads that each run `*m.lock() += 1` I times.
MutexInit ==
    /\ SemVarNew(MutexCapacity)
    /\ ThreadsIdle
    /\ cell = 0
    /\ \E T \in 1..NThreads : \E I \in 1..MaxIters :
          /\ plan = <<T, I>>
          /\ todo = [t \in Threads |-> IF t <= T THEN I ELSE 0]

\* m.lock(): self.inner.access()
Lock(t) ==
    /\ stage[t] = "lock"
    /\ todo[t] > 0
    /\ Load(t)
    /\ stage' = [stage EXCEPT ![t] = "read"]
    /\ UNCHANGED <<tmp, todo, plan, COUNT, cell, wk, since,
                   log, view, sync>>

\* deref_mut, and the read of `+= 1`, once lock() has returned the guard
DerefMutRead(t) ==
    /\ stage[t] = "read"
    /\ pc[t] = "idle"
    /\ held[t] > 0
    /\ tmp' = [tmp EXCEPT ![t] = cell]
    /\ stage' = [stage EXCEPT ![t] = "write"]
    /\ UNCHANGED <<capacity, count, pc, value, held, epoch, todo, plan, COUNT, cell,
                   wk, since, log, view, sync>>

\* the write of `+= 1` through the &mut T
DerefMutWrite(t) ==
    /\ stage[t] = "write"
    /\ cell' = tmp[t] + 1
    /\ tmp' = [tmp EXCEPT ![t] = 0]
    /\ stage' = [stage EXCEPT ![t] = "drop"]
    /\ UNCHANGED <<capacity, count, pc, value, held, epoch, todo, plan, COUNT, wk, since,
                   log, view, sync>>

\* the temporary MutexGuard is dropped at the end of the statement
Unlock(t) ==
    /\ stage[t] = "drop"
    /\ FetchSub(t)
    /\ stage' = [stage EXCEPT ![t] = "lock"]
    /\ todo' = [todo EXCEPT ![t] = @ - 1]
    /\ UNCHANGED <<tmp, plan, COUNT, cell, wk, since,
                   log, view, sync>>

MutexNext ==
    \E t \in Threads :
        \/ Lock(t)
        \/ DerefMutRead(t)
        \/ DerefMutWrite(t)
        \/ Unlock(t)
        \/ Step(t)
        \/ Spurious(t)

MutexSpec == MutexInit /\ [][MutexNext]_vars

\* ------------------------------------------- lock() by a thread that holds
\* A thread that holds the MutexGuard calls m.lock() again before dropping it.
Relock(t) ==
    /\ stage[t] = "read"
    /\ held[t] > 0
    /\ Load(t)
    /\ stage' = [stage EXCEPT ![t] = "relock"]
    /\ UNCHANGED <<tmp, todo, plan, COUNT, cell, wk, since,
                   log, view, sync>>

RelockNext ==
    \E t \in Threads :
        \/ Lock(t)
        \/ Relock(t)
        \/ DerefMutRead(t)
        \/ DerefMutWrite(t)
        \/ Unlock(t)
        \/ Step(t)
        \/ Spurious(t)

RelockSpec == MutexInit /\ [][RelockNext]_vars

\* ------------------------------------------ who takes a freed slot (history)
\* The history wk[t] of a thread t, kept by Watch:
\*   "no"      nothing to remember
\*   "freed"   t's drop has decremented count and not issued its wake_one yet,
\*             and no thread has claimed a slot since the decrement
\*   "taken"   as "freed", but a thread has claimed a slot since the decrement
\*   "woken"   wake_one woke t and t has not read count again yet; no thread
\*             has claimed a slot since the decrement of the drop that woke t
\*   "reread"  as "woken", and t has read count again
\*   "barged"  while t was "woken", a thread that called access() after the
\*             wake, so after t blocked, claimed a slot
\*   "passed"  a thread claimed a slot since that decrement in any other way
Claimed(n) ==
    [w \in Threads |->
        IF w = n THEN "no"
        ELSE IF wk[w] = "woken" /\ w \in since[n] THEN "barged"
        ELSE IF wk[w] \in {"woken", "reread"} THEN "passed"
        ELSE IF wk[w] = "freed" THEN "taken"
        ELSE wk[w]]

\* The history after a step of thread t, read off the step.
Watch(t) ==
    IF pc[t] = "idle" /\ Pending(t)'
    THEN \* t called access()
         /\ wk' = [wk EXCEPT ![t] = "no"]
         /\ since' = [since EXCEPT ![t] = {w \in Threads : wk[w] = "woken"}]
    ELSE IF pc[t] = "cas" /\ pc'[t] = "idle"
    THEN \* t's compare_exchange succeeded
         /\ wk' = Claimed(t)
         /\ since' = [since EXCEPT ![t] = {}]
    ELSE IF pc[t] = "reload"
    THEN \* t read count again
         /\ wk' = [wk EXCEPT ![t] = IF @ = "woken" THEN "reread" ELSE @]
         /\ since' = [n \in Threads |-> since[n] \ {t}]
    ELSE IF pc[t] = "blocked"
    THEN \* t's wait returned by itself
         /\ wk' = [wk EXCEPT ![t] = "no"]
         /\ since' = since
    ELSE IF pc[t] = "idle" /\ pc'[t] = "wake"
    THEN \* t's drop decremented count
         /\ wk' = [wk EXCEPT ![t] = "freed"]
         /\ since' = since
    ELSE IF pc[t] = "wake"
    THEN \* t's wake_one, which woke the thread that left "blocked", if any
         /\ wk' = [w \in Threads |->
                     IF w = t THEN "no"
                     ELSE IF pc[w] = "blocked" /\ pc'[w] = "reload"
                          THEN (IF wk[t] = "taken" THEN "passed" ELSE "woken")
                          ELSE wk[w]]
         /\ since' = since
    ELSE UNCHANGED <<wk, since>>

Watched == UNCHANGED <<stage, tmp, todo, plan, COUNT, cell, log, view, sync>>

WatchAcquire(t) == held[t] = 0 /\ Load(t) /\ Watched /\ Watch(t)

WatchRelease(t) == FetchSub(t) /\ Watched /\ Watch(t)

WatchStep(t) == Inside(t) /\ Watched /\ Watch(t)

WatchSpurious(t) == SpuriousWake(t) /\ Watched /\ Watch(t)

WatchNext ==
    \E t \in Threads :
        \/ WatchAcquire(t)
        \/ WatchRelease(t)
        \/ WatchStep(t)
        \/ WatchSpurious(t)

WatchSpec == Init /\ [][WatchNext]_vars

\* --------------------- test waits_when_max_guards_active (sem.rs 104-154)
\* The threads of the two groups, on a semaphore of capacity C: C threads in
\* the first (plan[1]) and, in the test, as many in the second (plan[2]).
first_set == 1..plan[1]

second_set == (plan[1] + 1)..(plan[1] + plan[2])

GroupInit ==
    /\ \E c \in 1..MaxCapacity : c < NThreads /\ SemVarNew(c)
    /\ ThreadsIdle
    /\ cell = 0
    /\ \E g \in 1..(NThreads - capacity) : plan = <<capacity, g>>
    /\ todo = [t \in Threads |-> IF t <= plan[1] + plan[2] THEN 1 ELSE 0]

\* COUNT.fetch_add(1, SeqCst), then the closure returns guard: the thread ends
\* and its handle can be joined.
GroupTally(t) ==
    /\ stage[t] = "tally"
    /\ pc[t] = "idle"
    /\ held[t] > 0
    /\ COUNT' = COUNT + 1
    /\ stage' = [stage EXCEPT ![t] = "join"]
    /\ UNCHANGED <<capacity, count, pc, value, held, epoch, tmp, todo, plan, cell,
                   wk, since, log, view, sync>>

\* The main thread has let go of thread t's guard, wake_one included.
Dropped(t) == stage[t] = "done" /\ pc[t] = "idle"

\* guards.push(handle.join().unwrap()), for the handles of first_set in order
JoinFirst(t) ==
    /\ t \in first_set
    /\ stage[t] = "join"
    /\ \A u \in first_set : u < t => stage[u] = "kept"
    /\ stage' = [stage EXCEPT ![t] = "kept"]
    /\ UNCHANGED <<capacity, count, pc, value, held, epoch, tmp, todo, plan, COUNT,
                   cell, wk, since, log, view, sync>>

\* drop(guard), for the guards in order, once every handle of first_set is joined
DropFirst(t) ==
    /\ t \in first_set
    /\ stage[t] = "kept"
    /\ \A u \in first_set : IF u < t THEN Dropped(u) ELSE stage[u] = "kept"
    /\ FetchSub(t)
    /\ stage' = [stage EXCEPT ![t] = "done"]
    /\ todo' = [todo EXCEPT ![t] = 0]
    /\ UNCHANGED <<tmp, plan, COUNT, cell, wk, since,
                   log, view, sync>>

\* handle.join().unwrap(), for the handles of second_set in order: the guard
\* the thread returned is dropped at the end of the statement.
JoinSecond(t) ==
    /\ t \in second_set
    /\ stage[t] = "join"
    /\ \A u \in first_set : Dropped(u)
    /\ \A u \in second_set : u < t => Dropped(u)
    /\ FetchSub(t)
    /\ stage' = [stage EXCEPT ![t] = "done"]
    /\ todo' = [todo EXCEPT ![t] = 0]
    /\ UNCHANGED <<tmp, plan, COUNT, cell, wk, since,
                   log, view, sync>>

GroupNext ==
    \E t \in Threads :
        \/ WorkAccess(t)
        \/ GroupTally(t)
        \/ JoinFirst(t)
        \/ DropFirst(t)
        \/ JoinSecond(t)
        \/ Step(t)
        \/ Spurious(t)

\* Every spawned thread and the main thread run on when they can.
GroupFairness ==
    \A t \in Threads :
        /\ WF_vars(WorkAccess(t))
        /\ WF_vars(GroupTally(t))
        /\ WF_vars(JoinFirst(t))
        /\ WF_vars(DropFirst(t))
        /\ WF_vars(JoinSecond(t))
        /\ WF_vars(Step(t))

GroupSpec == GroupInit /\ [][GroupNext]_vars /\ GroupFairness

\* ---------------- test cant_access_when_max_guards_active (sem.rs 84-102)
\* N threads on a semaphore of capacity C <= N; each leaks the guard it gets.
LeakInit ==
    /\ \E c \in 0..MaxCapacity : c <= NThreads /\ SemVarNew(c)
    /\ ThreadsIdle
    /\ cell = 0
    /\ todo = [t \in Threads |-> 1]
    /\ plan = <<NThreads, 1>>

\* Box::leak(Box::new(sem.access())) has its guard, which is never dropped;
\* COUNT.fetch_add(1, SeqCst), and the thread sleeps.
LeakTally(t) ==
    /\ stage[t] = "tally"
    /\ pc[t] = "idle"
    /\ held[t] > 0
    /\ COUNT' = COUNT + 1
    /\ stage' = [stage EXCEPT ![t] = "sleep"]
    /\ UNCHANGED <<capacity, count, pc, value, held, epoch, tmp, todo, plan, cell,
                   wk, since, log, view, sync>>

LeakNext ==
    \E t \in Threads :
        \/ WorkAccess(t)
        \/ LeakTally(t)
        \/ Step(t)
        \/ Spurious(t)

\* Every spawned thread runs on when it can.
LeakFairness ==
    \A t \in Threads :
        /\ WF_vars(WorkAccess(t))
        /\ WF_vars(LeakTally(t))
        /\ WF_vars(Step(t))

LeakSpec == LeakInit /\ [][LeakNext]_vars /\ LeakFairness

\* ------------------------------- any client, any capacity the word can hold
\* SemVar::new(capacity, value) takes any u32, u32::MAX included.
WordInit ==
    /\ \E c \in 0..(Modulus - 1) : SemVarNew(c)
    /\ ThreadsIdle
    /\ cell = 0
    /\ todo = [t \in Threads |-> 0]
    /\ plan = <<0, 0>>

\* The first thread calls access() however many guards it holds, the others
\* only when they hold none.
WordAccess(t) ==
    /\ t = 1 \/ held[t] = 0
    /\ Load(t)
    /\ Quiet

WordNext ==
    \E t \in Threads :
        \/ WordAccess(t)
        \/ Drop(t)
        \/ Step(t)
        \/ Spurious(t)

WordSpec == WordInit /\ [][WordNext]_vars

\* ------------------------- what the operations on count make visible
\* Ordering::SeqCst of count.load (sem.rs 48, 73)
LoadOrdering == "SeqCst"

\* A compare_exchange whose success ordering is Relaxed.
CasSuccessRelaxed == "Relaxed"

\* Ordering::SeqCst, the success ordering of compare_exchange (sem.rs 55)
CasSuccessOrdering == "SeqCst"

\* Ordering::SeqCst, the failure ordering of compare_exchange (sem.rs 56)
CasFailureOrdering == "SeqCst"

\* A fetch_sub whose ordering is Relaxed.
FetchSubRelaxed == "Relaxed"

\* Ordering::SeqCst of count.fetch_sub (sem.rs 20)
FetchSubOrdering == "SeqCst"

Acquires(o) == o \in {"Acquire", "AcqRel", "SeqCst"}

Releases(o) == o \in {"Release", "AcqRel", "SeqCst"}

Newer(a, b) == IF a >= b THEN a ELSE b

\* The writes that happen before t's next step once t has read count with
\* ordering o: an acquiring read adds what the write it reads from released.
AcquireView(t, o) == IF Acquires(o) THEN Newer(view[t], sync) ELSE view[t]

\* What count releases once t has written it by a read-modify-write with
\* ordering o: a releasing write adds all that happens before it; any
\* read-modify-write hands on what the write it replaces released.
ReleaseView(t, o) == IF Releases(o) THEN Newer(sync, AcquireView(t, o)) ELSE sync

\* The effect on view and sync of a step of thread t, read off the step.
Synchronise(t) ==
    IF (pc[t] = "idle" /\ Pending(t)') \/ pc[t] = "reload"
    THEN \* count.load
         /\ view' = [view EXCEPT ![t] = AcquireView(t, LoadOrdering)]
         /\ sync' = sync
    ELSE IF pc[t] = "cas" /\ pc'[t] = "idle"
    THEN \* compare_exchange, Ok
         /\ view' = [view EXCEPT ![t] = AcquireView(t, CasSuccessOrdering)]
         /\ sync' = ReleaseView(t, CasSuccessOrdering)
    ELSE IF pc[t] = "cas"
    THEN \* compare_exchange, Err
         /\ view' = [view EXCEPT ![t] = AcquireView(t, CasFailureOrdering)]
         /\ sync' = sync
    ELSE IF pc[t] = "idle" /\ pc'[t] = "wake"
    THEN \* count.fetch_sub
         /\ view' = [view EXCEPT ![t] = AcquireView(t, FetchSubOrdering)]
         /\ sync' = ReleaseView(t, FetchSubOrdering)
    ELSE UNCHANGED <<view, sync>>

\* T threads that each run `*m.lock() += 1` I times, MaxWrites times in all at
\* the most.
OrderInit ==
    /\ SemVarNew(MutexCapacity)
    /\ ThreadsIdle
    /\ cell = 0
    /\ \E T \in 1..NThreads : \E I \in 1..MaxIters :
          /\ T * I <= MaxWrites
          /\ plan = <<T, I>>
          /\ todo = [t \in Threads |-> IF t <= T THEN I ELSE 0]

\* The i-th value written to the guarded value; the 0th is that of Mutex::new.
Written(i) == IF i = 0 THEN 0 ELSE log[i]

\* m.lock(): self.inner.access()
OrderLock(t) ==
    /\ stage[t] = "lock"
    /\ todo[t] > 0
    /\ Load(t)
    /\ Synchronise(t)
    /\ stage' = [stage EXCEPT ![t] = "read"]
    /\ UNCHANGED <<tmp, todo, plan, COUNT, cell, wk, since, log>>

\* deref_mut, and the read of `+= 1`: the read through the UnsafeCell yields the
\* last write that happens before it, or any later write, which it races with.
OrderRead(t) ==
    /\ stage[t] = "read"
    /\ pc[t] = "idle"
    /\ held[t] > 0
    /\ \E i \in view[t]..Len(log) : tmp' = [tmp EXCEPT ![t] = Written(i)]
    /\ stage' = [stage EXCEPT ![t] = "write"]
    /\ UNCHANGED <<capacity, count, pc, value, held, epoch, todo, plan, COUNT, cell,
                   wk, since, log, view, sync>>

\* the write of `+= 1` through the &mut T
OrderWrite(t) ==
    /\ stage[t] = "write"
    /\ cell' = tmp[t] + 1
    /\ log' = Append(log, tmp[t] + 1)
    /\ view' = [view EXCEPT ![t] = Len(log) + 1]
    /\ tmp' = [tmp EXCEPT ![t] = 0]
    /\ stage' = [stage EXCEPT ![t] = "drop"]
    /\ UNCHANGED <<capacity, count, pc, value, held, epoch, todo, plan, COUNT, wk, since,
                   sync>>

\* the temporary MutexGuard is dropped at the end of the statement
OrderUnlock(t) ==
    /\ stage[t] = "drop"
    /\ FetchSub(t)
    /\ Synchronise(t)
    /\ stage' = [stage EXCEPT ![t] = "lock"]
    /\ todo' = [todo EXCEPT ![t] = @ - 1]
    /\ UNCHANGED <<tmp, plan, COUNT, cell, wk, since, log>>

OrderStep(t) ==
    /\ Inside(t)
    /\ Synchronise(t)
    /\ UNCHANGED <<stage, tmp, todo, plan, COUNT, cell, wk, since, log>>

OrderNext ==
    \E t \in Threads :
        \/ OrderLock(t)
        \/ OrderRead(t)
        \/ OrderWrite(t)
        \/ OrderUnlock(t)
        \/ OrderStep(t)
        \/ Spurious(t)

OrderSpec == OrderInit /\ [][OrderNext]_vars

\* ------------------------------------------------------------------ claims
\* C1: for every capacity and every interleaving of access() calls and guard
\* drops, 0 <= count <= capacity in every reachable state: count never wraps
\* below 0 and never exceeds the capacity.
CountInRange == count \in 0..capacity

\* A full semaphore (capacity >= 1) with a thread about to compare_exchange
\* from a stale value and another thread in the middle of a drop.
CountInRangeWitness ==
    /\ capacity >= 1
    /\ count = capacity
    /\ \E t \in Threads : pc[t] = "cas"
    /\ \E t \in Threads : pc[t] = "wake"

\* C2: the guards returned by access() and not yet dropped never number more
\* than the capacity, however many threads contend (also when none is dropped).
LiveGuardsBounded == LiveGuards <= capacity

\* Capacity guards are live, a further thread is blocked
\* in wait and another is still trying.
LiveGuardsBoundedWitness ==
    /\ capacity >= 1
    /\ LiveGuards = capacity
    /\ \E t, u \in Threads : t # u /\ pc[t] = "blocked" /\ Pending(u)

\* C7: a guard comes into being only through a successful compare_exchange
\* inside access(), which raises count by one; only the drop of a guard that
\* exists lowers count, by one and once per guard; no other step changes count
\* or the guards.
GuardLifecycleStep ==
    /\ \A t \in Threads :
          /\ held'[t] > held[t] =>
                /\ held'[t] = held[t] + 1
                /\ pc[t] = "cas" /\ pc'[t] = "idle"
                /\ count = value[t]
                /\ count' = count + 1
          /\ held'[t] < held[t] =>
                /\ held'[t] = held[t] - 1
                /\ pc[t] = "idle" /\ pc'[t] = "wake"
                /\ count' = count - 1
    /\ count' < count => \E t \in Threads : held[t] > 0 /\ held'[t] = held[t] - 1
    /\ count' > count => \E t \in Threads : held'[t] = held[t] + 1

GuardLifecycle == [][GuardLifecycleStep]_vars

\* A guard has been claimed and released (its drop has decremented count and is
\* about to wake) while another guard is held.
GuardLifecycleWitness ==
    \E t, u \in Threads :
        /\ t # u
        /\ pc[t] = "wake" /\ held[t] = 0
        /\ held[u] = 1
        /\ count = 1

\* C5: when a thread is pending inside access() and a slot is free (a holder
\* has dropped its guard), some access() call eventually returns a guard: a
\* freed slot is not left unused for ever while a caller waits for it.
ProgressAfterRelease ==
    \A e \in {0, 1} :
        ((\E t \in Threads : Pending(t)) /\ count < capacity /\ epoch = e)
            ~> (epoch # e)

\* A thread is blocked in wait, a holder has decremented count and has not
\* issued its wake_one yet.
ProgressAfterReleaseWitness ==
    \E t, h \in Threads :
        /\ pc[t] = "blocked"
        /\ pc[h] = "wake"
        /\ count < capacity

\* C9 as stated: every thread waiting in access() eventually obtains a guard.
EveryWaiterAcquires ==
    \A t \in Threads : (capacity >= 1 /\ Pending(t)) ~> (held[t] > 0)

\* C9 amended: whenever a thread waits in access() on a semaphore of capacity
\* >= 1, eventually some access() call returns a guard, the waiter's own or
\* that of a thread that overtakes it.
SomeWaiterAcquires ==
    \A t \in Threads : \A e \in {0, 1} :
        (capacity >= 1 /\ Pending(t) /\ epoch = e) ~> (epoch # e)

\* More threads than slots: the semaphore is full, one thread is blocked in wait
\* and another is pending too.
SomeWaiterAcquiresWitness ==
    /\ capacity >= 1
    /\ count = capacity
    /\ \E t, u \in Threads : t # u /\ pc[t] = "blocked" /\ Pending(u)

\* t is the only thread that is or will be inside access().
OnlyCaller(t) ==
    \A u \in Threads \ {t} : ~Pending(u) /\ ~(stage[u] = "lock" /\ todo[u] > 0)

\* C6: while capacity guards are live no access() call returns; and once one
\* of the guards is dropped, a call that is pending, when no other thread is in
\* access() or calls it, eventually returns.
BlocksThenUnblocks ==
    /\ [][LiveGuards = capacity => \A t \in Threads : held'[t] <= held[t]]_vars
    /\ \A t \in Threads :
          (Pending(t) /\ LiveGuards < capacity /\ OnlyCaller(t)) ~> (held[t] > 0)

\* The last caller is blocked in wait, one of the capacity guards has just been
\* dropped (count decremented, wake_one not issued yet), nobody else calls.
BlocksThenUnblocksWitness ==
    \E t, h \in Threads :
        /\ pc[t] = "blocked"
        /\ OnlyCaller(t)
        /\ pc[h] = "wake"
        /\ LiveGuards = capacity - 1

AllDone ==
    /\ COUNT = NThreads
    /\ \A t \in Threads : todo[t] = 0 /\ pc[t] = "idle" /\ held[t] = 0

\* C8: with NThreads > capacity threads that each call access() once and drop
\* the guard, every thread obtains a guard and terminates: COUNT reaches
\* NThreads, never more, and no thread stays in access().
FiniteWorkloadCompletes ==
    /\ <>[]AllDone
    /\ [](COUNT <= NThreads)

\* All threads are done and all slots are free again, with more threads than
\* slots.
FiniteWorkloadCompletesWitness ==
    /\ AllDone
    /\ NThreads > capacity
    /\ count = 0

\* The threads that are using the &mut T they got from their MutexGuard: from
\* the deref_mut to the drop of the guard.
InCriticalSection == {t \in Threads : stage[t] \in {"write", "drop"}}

\* C3: at most one MutexGuard exists at any instant, so no two threads are in
\* the critical section at the same time.
MutualExclusion ==
    /\ LiveGuards <= 1
    /\ Cardinality(InCriticalSection) <= 1

\* A thread is between its read and its write of the value while another is
\* blocked in lock() and a third is about to compare_exchange.
MutualExclusionWitness ==
    \E t, u, v \in Threads :
        /\ stage[t] = "write"
        /\ pc[u] = "blocked"
        /\ pc[v] = "cas"

\* The threads have all run their loops to the end.
Finished == \A t \in Threads : todo[t] = 0 /\ pc[t] = "idle"

\* C4: when T threads have each run `*m.lock() += 1` I times on Mutex::new(0),
\* the value is T * I.
NoLostUpdates == Finished => cell = plan[1] * plan[2]

\* Several threads, several iterations each, all finished.
NoLostUpdatesWitness ==
    /\ Finished
    /\ plan[1] >= 2
    /\ plan[2] >= 2
    /\ cell = plan[1] * plan[2]

\* C10: being woken does not give the slot.  A thread that wake_one woke
\* blocks again only when it finds count == capacity, and then another thread
\* has claimed a slot by compare_exchange since the decrement of the drop that
\* woke it; the barging execution itself is BargingWitness.
WokenMayLose ==
    [][\A w \in Threads :
          (pc[w] = "wait" /\ pc'[w] = "blocked" /\ wk[w] # "no")
             => (wk[w] \in {"passed", "barged"} /\ count = capacity)]_vars

\* W blocked; a holder released and wake_one woke W; N, which called access()
\* after that wake, claimed the freed slot before W read count again; W then
\* found count == capacity and is blocked again, while N holds the slot.
BargingWitness ==
    \E w, n \in Threads :
        /\ w # n
        /\ pc[w] = "blocked"
        /\ wk[w] = "barged"
        /\ value[w] = capacity
        /\ count = capacity
        /\ held[n] = 1

\* C11: SemVar::new accepts capacity 0, and on such a semaphore no access()
\* call ever returns a guard, whatever the interleaving and however often wait
\* returns by itself; count stays 0.
ZeroCapacityNeverGrants ==
    capacity = 0 =>
        /\ count = 0
        /\ LiveGuards = 0
        /\ \A t \in Threads : held[t] = 0 /\ pc[t] \in {"idle", "wait", "blocked", "reload"}

\* On a semaphore of capacity 0 one caller is blocked in wait, another has
\* returned from wait by itself and is about to read count again.
ZeroCapacityNeverGrantsWitness ==
    /\ capacity = 0
    /\ \E t, u \in Threads : pc[t] = "blocked" /\ pc[u] = "reload"

\* C12: a thread that holds a MutexGuard and calls lock() again never returns
\* from that call, whatever the other threads do: it stays inside access()
\* with its first guard still held, and the model has no step that reports it.
SelfDeadlock ==
    /\ [](\A t \in Threads :
            stage[t] = "relock" => Pending(t) /\ held[t] = 1 /\ count = 1)
    /\ [][\A t \in Threads :
            stage[t] = "relock" => stage'[t] = "relock" /\ held'[t] = held[t]]_vars

\* The holder, after at least one increment, is blocked in its second lock(),
\* and another thread is blocked behind it.
SelfDeadlockWitness ==
    \E t, u \in Threads :
        /\ t # u
        /\ stage[t] = "relock"
        /\ pc[t] = "blocked"
        /\ pc[u] = "blocked"
        /\ cell >= 1

\* C13: when a single thread repeats access() and drop on a semaphore of
\* capacity >= 1, no call reaches the wait: every call is at its
\* compare_exchange with the value count has, so that it succeeds at once, and
\* count alternates between 0 and 1.
SequentialFastPath ==
    plan[1] = 1 =>
        /\ count \in {0, 1}
        /\ \A t \in Threads :
              /\ pc[t] \in {"idle", "cas", "wake"}
              /\ pc[t] = "cas" => value[t] = count /\ count = 0

\* The single thread is in its second call, at the compare_exchange.
SequentialFastPathWitness ==
    /\ plan[1] = 1
    /\ pc[1] = "cas"
    /\ COUNT = 1
    /\ todo[1] = 1

\* A thread is in the middle of a release (count decremented, wake_one not
\* issued yet), or has left its wait and is retrying inside access().
SomeoneActive ==
    \E u \in Threads : pc[u] \in {"wake", "reload", "cas"}

\* C14: no wakeup is missed.  A thread blocks in wait only if count equals the
\* value it loaded at the moment of the wait's check, and otherwise leaves the
\* wait at once to read count again; and in no reachable state is a slot free
\* while a thread is blocked in wait and no thread is active.
NoMissedWakeup ==
    /\ []((count < capacity /\ \E t \in Threads : pc[t] = "blocked") => SomeoneActive)
    /\ [][\A t \in Threads :
            (pc[t] = "wait" /\ pc'[t] # "wait") =>
                /\ pc'[t] = "blocked" => count = value[t] /\ value[t] = capacity
                /\ count # value[t] => pc'[t] = "reload"]_vars

\* A thread loaded count == capacity and is at its wait, and a release has
\* happened since: count is below the value it expects.
NoMissedWakeupWitness ==
    \E t \in Threads :
        /\ pc[t] = "wait"
        /\ value[t] = capacity
        /\ count < value[t]
        /\ \A u \in Threads \ {t} : pc[u] = "idle"

\* The threads whose drop decrements count in the step, the threads whose
\* drop issues its wake_one in the step, and the threads that leave wait in it.
Decrementing == {t \in Threads : pc[t] = "idle" /\ pc'[t] = "wake"}

Waking == {t \in Threads : pc[t] = "wake" /\ pc'[t] # "wake"}

Unblocked == {w \in Threads : pc[w] = "blocked" /\ pc'[w] # "blocked"}

\* C15: release protocol.  A drop first lowers count by exactly 1, giving up
\* one guard and unblocking nobody, and only a thread that has done so issues a
\* wake_one, exactly one per decrement; the wake_one leaves count alone,
\* unblocks at most one thread blocked in wait (which goes on to read count
\* again) and changes nothing else when no thread is blocked.  Releases and
\* wake_one calls thus pair one to one, and k releases unblock at most k waiters.
ReleaseProtocol ==
    [][/\ \A t \in Decrementing :
             /\ count > 0
             /\ count' = count - 1
             /\ held'[t] = held[t] - 1
             /\ Unblocked = {}
       /\ \A t \in Threads : pc'[t] = "wake" => pc[t] = "wake" \/ t \in Decrementing
       /\ \A t \in Waking :
             /\ pc'[t] = "idle"
             /\ count' = count
             /\ held' = held
             /\ Waking = {t}
             /\ Cardinality(Unblocked) <= 1
             /\ \A w \in Unblocked : pc'[w] = "reload"
             /\ \A w \in Threads \ (Unblocked \cup {t}) : pc'[w] = pc[w]]_vars

\* Two threads were blocked in wait; one release has woken one of them, which
\* has not yet read count again, and the other is still blocked.
ReleaseProtocolWitness ==
    \E w, b \in Threads :
        /\ w # b
        /\ wk[w] = "woken"
        /\ pc[w] = "reload"
        /\ pc[b] = "blocked"
        /\ \A t \in Threads : pc[t] # "wake"

\* The access() call of thread t has returned.
Returned(t) == stage[t] # "lock" /\ ~Pending(t)

\* C16: the two-group scenario.  Every call of the first group returns; when
\* they all have and none of their guards is dropped yet, exactly C calls have
\* returned; and after the first group's guards are dropped every call of the
\* second group has returned as well, 2C in all.
TwoGroups ==
    plan = <<capacity, capacity>> =>
        /\ <>(\A t \in first_set : Returned(t))
        /\ []((\A t \in first_set : Returned(t) /\ stage[t] # "done")
                => Cardinality({t \in Threads : Returned(t)}) = capacity)
        /\ <>(/\ \A t \in first_set : Dropped(t)
              /\ \A t \in second_set : Returned(t)
              /\ COUNT = 2 * capacity)

\* C17: leaked guards keep their slots.  With N >= C threads calling access()
\* and no guard ever dropped, never more than C calls have returned, and from
\* some point on exactly C calls have returned (and been tallied) while each of
\* the other N - C threads is inside access(), for ever.
LeakedSlotsStayTaken ==
    /\ [](Cardinality({t \in Threads : Returned(t)}) <= capacity)
    /\ <>[](/\ Cardinality({t \in Threads : Returned(t)}) = capacity
            /\ Cardinality({t \in Threads : Pending(t)}) = NThreads - capacity
            /\ COUNT = capacity
            /\ count = capacity)

\* Every slot is leaked and tallied, and every other thread is blocked in wait.
LeakedSlotsStayTakenWitness ==
    /\ capacity >= 1
    /\ COUNT = capacity
    /\ Cardinality({t \in Threads : stage[t] = "sleep"}) = capacity
    /\ Cardinality({t \in Threads : pc[t] = "blocked"}) = NThreads - capacity

\* C19: count is the number of live guards.  In every reachable state count
\* equals the number of guards access() has handed out whose drop has not yet
\* decremented; a compare_exchange that fails leaves count and the guards as
\* they are, and one that succeeds raises count by exactly 1, from a value
\* below capacity, and hands out one guard.
CountIsLiveGuards ==
    /\ [](count = LiveGuards)
    /\ [][\A t \in Threads :
            (pc[t] = "cas" /\ (pc'[t] # "cas" \/ value'[t] # value[t])) =>
                IF pc'[t] = "idle"
                THEN /\ count = value[t]
                     /\ count < capacity
                     /\ count' = count + 1
                     /\ held' = [held EXCEPT ![t] = @ + 1]
                ELSE /\ count # value[t]
                     /\ count' = count
                     /\ held' = held]_vars

\* One guard is live, a thread has decremented for another guard and not yet
\* issued its wake_one, and another thread's compare_exchange is about to fail.
CountIsLiveGuardsWitness ==
    /\ count = 1
    /\ LiveGuards = 1
    /\ \E t, u \in Threads :
          /\ pc[t] = "wake"
          /\ pc[u] = "cas"
          /\ value[u] # count

\* C20: no wrap-around of the count word.  For every capacity the word can
\* hold, its maximum included, a thread is at the compare_exchange only with a
\* value below capacity, so that value + 1 fits the word; a drop's fetch_sub
\* finds count above 0, so that res - 1 does not underflow; and count never
\* jumps by more than 1 in a step.
NoWrapAround ==
    /\ [](\A t \in Threads :
            pc[t] = "cas" => value[t] < capacity /\ value[t] + 1 < Modulus)
    /\ [][/\ \A t \in Decrementing : count >= 1 /\ count' = count - 1
          /\ count' - count \in {-1, 0, 1}]_vars

\* The capacity is the largest value of the word, every slot is taken, and a
\* thread that loaded that value is at its wait instead of the compare_exchange.
NoWrapAroundWitness ==
    /\ capacity = Modulus - 1
    /\ count = capacity
    /\ \E t \in Threads : pc[t] = "wait" /\ value[t] = Modulus - 1

\* C18: release-to-acquire visibility.  Every write to the guarded value
\* happens before the read of the next thread whose lock() has returned: the
\* holder reads the value written last, and so the k-th write stores k.
ReleaseAcquireVisibility ==
    /\ [](\A t \in Threads :
            (stage[t] = "read" /\ pc[t] = "idle" /\ held[t] > 0) => view[t] = Len(log))
    /\ [](\A i \in 1..Len(log) : log[i] = i)
    /\ [][\A t \in Threads :
            (stage[t] = "read" /\ stage'[t] = "write") => tmp'[t] = cell]_vars

\* A thread holds the lock for the first time, about to read, after two writes
\* by other threads: what it knows of them it knows through count.
ReleaseAcquireVisibilityWitness ==
    \E t \in Threads :
        /\ stage[t] = "read"
        /\ pc[t] = "idle"
        /\ held[t] > 0
        /\ todo[t] = plan[2]
        /\ Len(log) >= 2
        /\ view[t] = Len(log)

====
